---- MODULE Spec2Model ----
(***************************************************************************)
(* Glass-coating analysis tool: the greedy label placement of              *)
(* plots/scatter_plot.py (adjust_label_positions and its caller            *)
(* create_scatter_plot) and the table-edit synchronisation of main.py.     *)
(*                                                                         *)
(* Numbers.  The source computes with floats; the model computes with      *)
(* exact rationals held as integers.  Raw metric values are integers.      *)
(* Normalized x values are held as numerators over the denominator         *)
(* 100 * Scale(x_range) (y values over 100 * Scale(y_range)), so that      *)
(* (x - min) / x_range, the offsets 0.10, 0.12, ... and the label extent   *)
(* 0.15 x 0.10 are all exact: Hx(15) is 0.15 and Hy(10) is 0.10.           *)
(*                                                                         *)
(* Two specifications: Spec runs adjust_label_positions row by row;        *)
(* SpecSession runs the Streamlit script of main.py, one user interaction  *)
(* and one script run at a time.  The session table is modelled with the   *)
(* columns Supplier, G-Value and VLT (%) (fields Supplier, G, VLT).        *)
(* SpecCharts applies one chart builder to one table; SpecOrder runs       *)
(* adjust_label_positions on a table and then on the same rows reversed.   *)
(* Table values are in hundredths (G-Value 0.34 is 34); chart coordinates  *)
(* that carry the 15 per cent margin are in hundredths of that again       *)
(* (CoordScale), and a quotient value / max is held as [num, den].         *)
(* SpecMainScatter builds the scatter tab of main.py on tables long enough *)
(* for the index into its list of label positions to wrap around.          *)
(***************************************************************************)
EXTENDS Integers, Sequences, FiniteSets, TLC

\* ---------------------------------------------------------------- bounds
MaxPoints == 5
MaxCalls == 2
MaxRows == 3
MaxEdits == 2
MaxChartRows == 3
MaxLabelRows == 10

\* Raw (x, y) values the rows of an input table are drawn from.
PointChoices == { <<0, 0>>, <<1, 0>>, <<0, 2>>, <<8, 8>>, <<20, 20>> }

VARIABLES
    caller,          \* "direct": adjust_label_positions called with given ranges;
                     \* "scatter": called by create_scatter_plot
    plot_df,         \* the input table: a sequence of rows [x, y]
    x_range,         \* argument x_range
    y_range,         \* argument y_range
    pc,              \* "loop" (inside the for loop) or "done" (returned)
    row_i,           \* number of rows the for loop has processed
    positions,       \* local list positions
    occupied_zones,  \* local list occupied_zones
    norm,            \* (x_norm, y_norm) of the row processed last
    rejected,        \* offsets for which check_overlap returned True, row processed last
    fallback,        \* per processed row: did the for loop end in its else clause
    table_in,        \* the table as it was handed to the current call
    returned,        \* history: [input, output] of every completed call
    has_df,          \* 'df' in st.session_state
    df,              \* st.session_state.df, the canonical table
    editor,          \* the editable copy shown by st.data_editor
    api,             \* shape of the host widget interface, fixed for a session
    spc,             \* position of the session: "start", "idle", "edited", "rerun", "charts"
    save_clicked,    \* the rerun was triggered by the manual save button
    n_edits,         \* number of user edits so far
    run_log,         \* canonical table at line 45, after line 97 and at line 113 of the last run
    notices,         \* messages shown by the last script run
    built,           \* charts built by the last script run
    host,            \* "main": the tabs of main.py; "plots": the functions of plots/
    chart_df,        \* current_df as handed to a chart builder
    chart,           \* the builder that has run, "none" before
    chart_in,        \* the widget values the builder read
    chart_notice,    \* st.info / st.warning messages of the builder
    fig              \* the figure the builder made

labelVars == << caller, plot_df, x_range, y_range, pc, row_i, positions, occupied_zones,
                norm, rejected, fallback, table_in, returned >>

sessionVars == << has_df, df, editor, api, spc, save_clicked, n_edits, run_log,
                  notices, built >>

chartVars == << host, chart_df, chart, chart_in, chart_notice, fig >>

vars == << labelVars, sessionVars, chartVars >>

\* ---------------------------------------------------------------- helpers
Abs(v) == IF v < 0 THEN -v ELSE v

Max2(a, b) == IF a > b THEN a ELSE b

Range(s) == { s[i] : i \in 1..Len(s) }

SeqMin(s) == CHOOSE m \in Range(s) : \A v \in Range(s) : m <= v

SeqMax(s) == CHOOSE m \in Range(s) : \A v \in Range(s) : m >= v

SeqsUpTo(S, n) == UNION { [1..k -> S] : k \in 0..n }

Row(p) == [x |-> p[1], y |-> p[2]]

\* ------------------------------------------- adjust_label_positions, data
x_vals(tbl) == [i \in 1..Len(tbl) |-> tbl[i].x]

y_vals(tbl) == [i \in 1..Len(tbl) |-> tbl[i].y]

\* offsets in hundredths of the normalized unit
position_offsets ==
    ("top center" :> <<0, 8>>) @@ ("bottom center" :> <<0, -8>>) @@
    ("middle left" :> <<-12, 0>>) @@ ("middle right" :> <<12, 0>>) @@
    ("top left" :> <<-10, 6>>) @@ ("top right" :> <<10, 6>>) @@
    ("bottom left" :> <<-10, -6>>) @@ ("bottom right" :> <<10, -6>>)

\* variant of position_priority: the right-hand corners first
position_priority_right_first ==
    << "top right", "bottom right", "top left", "bottom left",
       "top center", "middle right", "middle left", "bottom center" >>

position_priority ==
    << "top right", "top left", "bottom right", "bottom left",
       "top center", "middle right", "middle left", "bottom center" >>

\* variant of default_position: the first offset of the priority order
default_position_first == "top right"

default_position == "top center"

label_width == 15

label_height == 10

\* denominator of a normalized value: range when the division happens, else 1
Scale(r) == IF r > 0 THEN r ELSE 1

\* h hundredths of the normalized x (y) unit, over the common denominator
Hx(h, xr) == h * Scale(xr)

Hy(h, yr) == h * Scale(yr)

\* (x - x_vals.min()) / x_range if x_range > 0 else 0.5
normalize_coords(x, y, tbl, xr, yr) ==
    << IF xr > 0 THEN (x - SeqMin(x_vals(tbl))) * 100 ELSE 50,
       IF yr > 0 THEN (y - SeqMin(y_vals(tbl))) * 100 ELSE 50 >>

\* variant of check_overlap: the loop returns after its first iteration, so
\* only the first occupied zone is tested
check_overlap_first_zone(x, y, offset_x, offset_y, zones, xr, yr) ==
    /\ Len(zones) > 0
    /\ 2 * Abs(x + Hx(offset_x, xr) - zones[1][1]) < Hx(label_width, xr) + zones[1][3]
    /\ 2 * Abs(y + Hy(offset_y, yr) - zones[1][2]) < Hy(label_height, yr) + zones[1][4]

\* variant of check_overlap: touching rectangles count as overlapping (<=)
check_overlap_inclusive(x, y, offset_x, offset_y, zones, xr, yr) ==
    \E k \in 1..Len(zones) :
        /\ 2 * Abs(x + Hx(offset_x, xr) - zones[k][1]) <= Hx(label_width, xr) + zones[k][3]
        /\ 2 * Abs(y + Hy(offset_y, yr) - zones[k][2]) <= Hy(label_height, yr) + zones[k][4]

\* variant of check_overlap: the test on y is dropped
check_overlap_x_only(x, y, offset_x, offset_y, zones, xr, yr) ==
    \E k \in 1..Len(zones) :
        2 * Abs(x + Hx(offset_x, xr) - zones[k][1]) < Hx(label_width, xr) + zones[k][3]

\* abs(x + offset_x - occ_x) < (label_width + occ_w) / 2 and
\* abs(y + offset_y - occ_y) < (label_height + occ_h) / 2, for some occupied
check_overlap(x, y, offset_x, offset_y, zones, xr, yr) ==
    \E k \in 1..Len(zones) :
        /\ 2 * Abs(x + Hx(offset_x, xr) - zones[k][1]) < Hx(label_width, xr) + zones[k][3]
        /\ 2 * Abs(y + Hy(offset_y, yr) - zones[k][2]) < Hy(label_height, yr) + zones[k][4]

\* variant of Overlaps (used by TryFromNoBreak)
OverlapsAt(xn, yn, pos, zones, xr, yr) ==
    \E k \in 1..Len(zones) :
        /\ 2 * Abs(xn + Hx(position_offsets[pos][1], xr) - zones[k][1]) < Hx(30, xr)
        /\ 2 * Abs(yn + Hy(position_offsets[pos][2], yr) - zones[k][2]) < Hy(20, yr)

\* variant of Zone: the rectangle is recorded around the point, not around
\* the label
ZoneAtPoint(xn, yn, pos, xr, yr) == << xn, yn, Hx(15, xr), Hy(10, yr) >>

\* the tuple appended to occupied_zones for offset pos
Zone(xn, yn, pos, xr, yr) ==
    << xn + Hx(position_offsets[pos][1], xr),
       yn + Hy(position_offsets[pos][2], yr),
       Hx(15, xr), Hy(10, yr) >>

Overlaps(xn, yn, pos, zones, xr, yr) ==
    check_overlap(xn, yn, position_offsets[pos][1], position_offsets[pos][2],
                  zones, xr, yr)

\* variant of TryFrom: the loop does not break, the last acceptable offset wins
TryFromNoBreak(k, xn, yn, zones, xr, yr) ==
    LET ok == { j \in k..Len(position_priority) :
                    ~OverlapsAt(xn, yn, position_priority[j], zones, xr, yr) }
    IN  IF ok = {} THEN 0 ELSE CHOOSE j \in ok : \A m \in ok : m <= j

\* for pos in position_priority: ... break -- index of the position the loop
\* breaks at, starting from index k; 0 when the loop runs to its else clause
RECURSIVE TryFrom(_, _, _, _, _, _)
TryFrom(k, xn, yn, zones, xr, yr) ==
    IF k > Len(position_priority) THEN 0
    ELSE IF ~Overlaps(xn, yn, position_priority[k], zones, xr, yr) THEN k
    ELSE TryFrom(k + 1, xn, yn, zones, xr, yr)

\* variant of FreshZones: the list survives from one call to the next
LeakedZones(old) == old

\* occupied_zones = [] at the start of a call (old: the list of the call before)
FreshZones(old) == << >>

\* variant of PositionsAfter: the append happens only where the loop breaks
PositionsAfterBreakOnly(ps, pos, tookElse) == IF tookElse THEN ps ELSE Append(ps, pos)

\* positions.append(chosen_position), after the for/else
PositionsAfter(ps, pos, tookElse) == Append(ps, pos)

\* variant of TableAfterRow: the normalized values are written back to row i
TableNormalizedInPlace(tbl, i, xn, yn) == [tbl EXCEPT ![i] = [x |-> xn, y |-> yn]]

\* the table after one iteration: iterrows and normalize_coords only read row i
TableAfterRow(tbl, i, xn, yn) == tbl

\* the ranges of x and y across all points, as the contract of the function
\* describes its arguments
ObservedRange(vals) == IF vals = << >> THEN 0 ELSE SeqMax(vals) - SeqMin(vals)

\* ------------------------------------------------- create_scatter_plot
\* raw value 1.0
One == 1

\* variant of PaddedRange: the observed range is passed on as it is
PaddedRangeObserved(vals) == SeqMax(vals) - SeqMin(vals)

\* x_range = (x_max - x_min) if (x_max > x_min) else max(abs(x_min), 1.0)
PaddedRange(vals) ==
    IF SeqMax(vals) > SeqMin(vals) THEN SeqMax(vals) - SeqMin(vals)
    ELSE Max2(Abs(SeqMin(vals)), One)

\* ---------------------------------------------------------------- Init
Tables == { [i \in DOMAIN s |-> Row(s[i])] : s \in SeqsUpTo(PointChoices, MaxPoints) }

Enter(c, tbl, xr, yr, old) ==
    /\ caller' = c
    /\ plot_df' = tbl
    /\ table_in' = tbl
    /\ x_range' = xr
    /\ y_range' = yr
    /\ pc' = "loop"
    /\ row_i' = 0
    /\ positions' = << >>
    /\ occupied_zones' = FreshZones(old)
    /\ norm' = << >>
    /\ rejected' = {}
    /\ fallback' = << >>

InitDirect ==
    \E tbl \in Tables :
        /\ caller = "direct"
        /\ plot_df = tbl /\ table_in = tbl
        /\ x_range = ObservedRange(x_vals(tbl))
        /\ y_range = ObservedRange(y_vals(tbl))

\* create_scatter_plot returns before the call when plot_df is empty
InitScatter ==
    \E tbl \in Tables :
        /\ Len(tbl) > 0
        /\ caller = "scatter"
        /\ plot_df = tbl /\ table_in = tbl
        /\ x_range = PaddedRange(x_vals(tbl))
        /\ y_range = PaddedRange(y_vals(tbl))

\* no chart builder has run
NoFig == [kind |-> "none"]

ChartsNotBuilt ==
    /\ host = "none"
    /\ chart_df = << >>
    /\ chart = "none"
    /\ chart_in = [none |-> TRUE]
    /\ chart_notice = {}
    /\ fig = NoFig

\* a session before its first script run: nothing in st.session_state
SessionNotStarted ==
    /\ has_df = FALSE
    /\ df = << >>
    /\ editor = << >>
    /\ spc = "start"
    /\ save_clicked = FALSE
    /\ n_edits = 0
    /\ run_log = [start |-> << >>, synced |-> << >>, saved |-> << >>]
    /\ notices = {}
    /\ built = {}

Init ==
    /\ InitDirect \/ InitScatter
    /\ pc = "loop"
    /\ row_i = 0
    /\ positions = << >>
    /\ occupied_zones = << >>
    /\ norm = << >>
    /\ rejected = {}
    /\ fallback = << >>
    /\ returned = << >>
    /\ SessionNotStarted
    /\ api = [ret |-> TRUE, wv |-> FALSE, on_change |-> TRUE]
    /\ ChartsNotBuilt

\* ---------------------------------------------------------------- actions
NextRow == plot_df[row_i + 1]

NextNorm == normalize_coords(NextRow.x, NextRow.y, plot_df, x_range, y_range)

NextChoice == TryFrom(1, NextNorm[1], NextNorm[2], occupied_zones, x_range, y_range)

\* one iteration of the for loop that breaks at an offset
PlaceLabel ==
    /\ pc = "loop"
    /\ row_i < Len(plot_df)
    /\ NextChoice # 0
    /\ LET pos == position_priority[NextChoice] IN
        /\ positions' = PositionsAfter(positions, pos, FALSE)
        /\ occupied_zones' = Append(occupied_zones,
                                    Zone(NextNorm[1], NextNorm[2], pos, x_range, y_range))
    /\ norm' = NextNorm
    /\ rejected' = { position_priority[k] : k \in 1..(NextChoice - 1) }
    /\ fallback' = Append(fallback, FALSE)
    /\ row_i' = row_i + 1
    /\ plot_df' = TableAfterRow(plot_df, row_i + 1, NextNorm[1], NextNorm[2])
    /\ UNCHANGED << caller, x_range, y_range, pc, table_in, returned >>
    /\ UNCHANGED << sessionVars, chartVars >>

\* one iteration of the for loop that ends in the else clause
FallbackLabel ==
    /\ pc = "loop"
    /\ row_i < Len(plot_df)
    /\ NextChoice = 0
    /\ positions' = PositionsAfter(positions, default_position, TRUE)
    /\ occupied_zones' = Append(occupied_zones,
                                Zone(NextNorm[1], NextNorm[2], default_position,
                                     x_range, y_range))
    /\ norm' = NextNorm
    /\ rejected' = Range(position_priority)
    /\ fallback' = Append(fallback, TRUE)
    /\ row_i' = row_i + 1
    /\ plot_df' = TableAfterRow(plot_df, row_i + 1, NextNorm[1], NextNorm[2])
    /\ UNCHANGED << caller, x_range, y_range, pc, table_in, returned >>
    /\ UNCHANGED << sessionVars, chartVars >>

\* return positions
Return ==
    /\ pc = "loop"
    /\ row_i = Len(plot_df)
    /\ pc' = "done"
    /\ returned' = Append(returned,
                          [input |-> << plot_df, x_range, y_range >>,
                           output |-> positions])
    /\ UNCHANGED << caller, plot_df, x_range, y_range, row_i, positions,
                    occupied_zones, norm, rejected, fallback, table_in >>
    /\ UNCHANGED << sessionVars, chartVars >>

\* a later call of the function, in the same process, on the same arguments
CallAgain ==
    /\ pc = "done"
    /\ Len(returned) < MaxCalls
    /\ Enter(caller, plot_df, x_range, y_range, occupied_zones)
    /\ UNCHANGED returned
    /\ UNCHANGED << sessionVars, chartVars >>

Next == PlaceLabel \/ FallbackLabel \/ Return \/ CallAgain

Spec == Init /\ [][Next]_vars

\* the rows of a table in the opposite order
Reverse(tbl) == [i \in 1..Len(tbl) |-> tbl[Len(tbl) + 1 - i]]

\* a later call of the function on the same rows in the opposite order
CallReordered ==
    /\ pc = "done"
    /\ Len(returned) < MaxCalls
    /\ Enter(caller, Reverse(plot_df), x_range, y_range, occupied_zones)
    /\ UNCHANGED returned
    /\ UNCHANGED << sessionVars, chartVars >>

NextOrder == PlaceLabel \/ FallbackLabel \/ Return \/ CallReordered

SpecOrder == Init /\ [][NextOrder]_vars

\* ------------------------------------------------------------ main.py, data
\* missing numeric cell (NaN) and missing text cell (None)
NaN == -1

None == "None"

numeric_cols == << "G", "VLT" >>

\* sample_data, values in hundredths (G-Value 0.34, VLT 59.0)
sample_data ==
    << [Supplier |-> "AGC EU", G |-> 34, VLT |-> 5900],
       [Supplier |-> "Guardian ME", G |-> 38, VLT |-> 6300] >>

\* the row st.data_editor(num_rows="dynamic") adds: every cell empty
BlankRow == [Supplier |-> None, G |-> NaN, VLT |-> NaN]

\* values a user types into a cell of column c
CellChoices(c) == IF c = "Supplier" THEN { None, "AGC EU" } ELSE { NaN, 0 }

Cell(r, c) == IF c = "Supplier" THEN r.Supplier ELSE IF c = "G" THEN r.G ELSE r.VLT

SetCell(r, c, v) ==
    IF c = "Supplier" THEN [r EXCEPT !.Supplier = v]
    ELSE IF c = "G" THEN [r EXCEPT !.G = v]
    ELSE [r EXCEPT !.VLT = v]

isna(r, c) == IF c = "Supplier" THEN r.Supplier = None ELSE Cell(r, c) = NaN

\* DataFrame.dropna(subset=cols): the rows with a value in every column of cols
dropna(t, cols) == SelectSeq(t, LAMBDA r : \A c \in cols : ~isna(r, c))

\* DataFrame[numeric_cols].fillna(0)
fillna0(t) ==
    [i \in 1..Len(t) |->
        [Supplier |-> t[i].Supplier,
         G |-> IF t[i].G = NaN THEN 0 ELSE t[i].G,
         VLT |-> IF t[i].VLT = NaN THEN 0 ELSE t[i].VLT]]

RemoveAt(t, i) == SubSeq(t, 1, i - 1) \o SubSeq(t, i + 1, Len(t))

\* ------------------------------------------------- main.py, synchronisation
\* sync_editor_to_df: the on_change callback
sync_editor_to_df(d, wvIsTable, ed) == IF wvIsTable THEN ed ELSE d

\* variant of AutoSync: rows of the editor beyond the old table are appended
\* to the old rows (a merge instead of a full replace)
AutoSyncMerge(d, retIsTable, wvIsTable, ed) ==
    IF retIsTable \/ wvIsTable
    THEN d \o SubSeq(ed, Len(d) + 1, Len(ed))
    ELSE d

\* lines 92-97: if isinstance(edited_df, DataFrame) ... else widget state
AutoSync(d, retIsTable, wvIsTable, ed) ==
    IF retIsTable THEN ed
    ELSE IF wvIsTable THEN ed
    ELSE d

\* lines 101-111: the manual save button
ManualSave(d, clicked, retIsTable, wvIsTable, ed) ==
    IF ~clicked THEN [table |-> d, notice |-> {}]
    ELSE IF retIsTable THEN [table |-> ed, notice |-> { "save: from returned editor value" }]
    ELSE IF wvIsTable THEN [table |-> ed, notice |-> { "save: from widget state" }]
    ELSE [table |-> d, notice |-> { "save: no valid edits" }]

\* ------------------------------------------------- chart builders
\* scatter tab: plot_df = current_df.dropna(subset=[x_axis, y_axis])
ScatterOutcome(cur, x_axis, y_axis) ==
    IF Len(dropna(cur, { x_axis, y_axis })) = 0
    THEN [notice |-> { "scatter: no valid data" }, chart |-> {}]
    ELSE [notice |-> {}, chart |-> { "scatter" }]

\* bar tab: empty selection, then bar_df = current_df.dropna(subset=metrics)
BarOutcome(cur, metrics_to_compare) ==
    IF Len(metrics_to_compare) = 0
    THEN [notice |-> { "bar: select at least one metric" }, chart |-> {}]
    ELSE IF Len(dropna(cur, Range(metrics_to_compare))) = 0
    THEN [notice |-> { "bar: no valid data" }, chart |-> {}]
    ELSE [notice |-> {}, chart |-> { "bar" }]

unique_suppliers(cur) == { cur[i].Supplier : i \in { k \in 1..Len(cur) : cur[k].Supplier # None } }

\* radial tab: no supplier in the table, no supplier selected, else the plots
RadialOutcome(cur, selected_suppliers) ==
    IF unique_suppliers(cur) = {}
    THEN [notice |-> { "radial: no supplier data" }, chart |-> {}]
    ELSE IF selected_suppliers = {}
    THEN [notice |-> { "radial: select at least one supplier" }, chart |-> {}]
    ELSE [notice |-> {}, chart |-> { "radial" }]

\* create_parallel_coordinates: parallel_df = current_df.copy(), fillna(0)
ParallelOutcome(cur) ==
    IF Len(fillna0(cur)) = 0
    THEN [notice |-> { "parallel: no data" }, chart |-> {}]
    ELSE [notice |-> {}, chart |-> { "parallel" }]

\* variant of SessionAfterCharts: fillna(0) reaches the session table
SessionFilledInPlace(session, cur) == fillna0(cur)

\* st.session_state.df after line 113: current_df is a copy and the builders
\* assign only to their own tables (plot_df, bar_df, supplier_df, parallel_df)
SessionAfterCharts(session, cur) == session

\* ------------------------------------------------- session, Init and actions
LabelNotCalled ==
    /\ caller = "none"
    /\ plot_df = << >>
    /\ x_range = 0
    /\ y_range = 0
    /\ pc = "idle"
    /\ row_i = 0
    /\ positions = << >>
    /\ occupied_zones = << >>
    /\ norm = << >>
    /\ rejected = {}
    /\ fallback = << >>
    /\ table_in = << >>
    /\ returned = << >>

\* a new session: nothing in st.session_state; the host interface decides
\* whether data_editor returns a table, whether the widget state is one, and
\* whether data_editor accepts on_change
InitSession ==
    /\ LabelNotCalled
    /\ SessionNotStarted
    /\ api \in [ret : BOOLEAN, wv : BOOLEAN, on_change : BOOLEAN]
    /\ ChartsNotBuilt

Edited(t) ==
    /\ spc = "idle"
    /\ n_edits < MaxEdits
    /\ editor' = t
    /\ spc' = "edited"
    /\ save_clicked' = FALSE
    /\ n_edits' = n_edits + 1
    /\ notices' = {}
    /\ built' = {}
    /\ UNCHANGED << has_df, df, api, run_log >>
    /\ UNCHANGED << labelVars, chartVars >>

\* the user adds a row to the editor
AddRow ==
    /\ Len(editor) < MaxRows
    /\ Edited(Append(editor, BlankRow))

\* the user deletes row i of the editor
DeleteRow ==
    \E i \in 1..Len(editor) : Edited(RemoveAt(editor, i))

\* the user edits one cell of the editor
EditCell ==
    \E i \in 1..Len(editor), c \in { "Supplier", "G", "VLT" } :
        \E v \in CellChoices(c) :
            /\ Cell(editor[i], c) # v
            /\ Edited([editor EXCEPT ![i] = SetCell(editor[i], c, v)])

\* the user presses the manual save button
ClickSave ==
    /\ spc = "idle"
    /\ ~save_clicked
    /\ spc' = "rerun"
    /\ save_clicked' = TRUE
    /\ notices' = {}
    /\ built' = {}
    /\ UNCHANGED << has_df, df, editor, api, n_edits, run_log >>
    /\ UNCHANGED << labelVars, chartVars >>

\* after an edit Streamlit calls on_change (when data_editor took it), then reruns
OnChange ==
    /\ spc = "edited"
    /\ df' = IF api.on_change THEN sync_editor_to_df(df, api.wv, editor) ELSE df
    /\ spc' = "rerun"
    /\ UNCHANGED << has_df, editor, api, save_clicked, n_edits, run_log, notices, built >>
    /\ UNCHANGED << labelVars, chartVars >>

\* variant of SeedTable: the table is created on every run
SeedTableEveryRun(has, d) == sample_data

\* if 'df' not in st.session_state: st.session_state.df = sample rows
SeedTable(has, d) == IF has THEN d ELSE sample_data

\* a script run, lines 31-111: seed, data_editor, sync, manual save
RunSync ==
    /\ spc \in { "start", "rerun" }
    /\ LET seeded == SeedTable(has_df, df)
           shown == IF spc = "start" THEN seeded ELSE editor
           synced == AutoSync(seeded, api.ret, api.wv, shown)
           saved == ManualSave(synced, save_clicked, api.ret, api.wv, shown)
       IN  /\ has_df' = TRUE
           /\ editor' = shown
           /\ df' = saved.table
           /\ run_log' = [start |-> seeded, synced |-> synced, saved |-> saved.table]
           /\ notices' = saved.notice
    /\ spc' = "charts"
    /\ built' = {}
    /\ UNCHANGED << api, save_clicked, n_edits >>
    /\ UNCHANGED << labelVars, chartVars >>

MetricSelections == { << >>, << "G" >>, << "VLT" >>, << "G", "VLT" >> }

\* the rest of the script run, lines 113-535: the chart tabs
RunCharts ==
    /\ spc = "charts"
    /\ \E x_axis \in Range(numeric_cols), y_axis \in Range(numeric_cols),
          metrics_to_compare \in MetricSelections, select_all \in BOOLEAN :
        LET current_df == df
            sc == ScatterOutcome(current_df, x_axis, y_axis)
            ba == BarOutcome(current_df, metrics_to_compare)
            ra == RadialOutcome(current_df,
                                IF select_all THEN unique_suppliers(current_df) ELSE {})
            pa == ParallelOutcome(current_df)
        IN  IF Len(current_df) > 0
            THEN /\ notices' = notices \cup sc.notice \cup ba.notice \cup ra.notice \cup pa.notice
                 /\ built' = sc.chart \cup ba.chart \cup ra.chart \cup pa.chart
                 /\ df' = SessionAfterCharts(df, current_df)
            ELSE /\ notices' = notices \cup { "add data to the table" }
                 /\ built' = {}
                 /\ df' = df
    /\ spc' = "idle"
    /\ UNCHANGED << has_df, editor, api, save_clicked, n_edits, run_log >>
    /\ UNCHANGED << labelVars, chartVars >>

NextSession ==
    AddRow \/ DeleteRow \/ EditCell \/ ClickSave \/ OnChange \/ RunSync \/ RunCharts

SpecSession == InitSession /\ [][NextSession]_vars

\* ------------------------------------------------- chart builders, figures
\* raw value 1.0, in hundredths
Unit == 100

\* chart coordinates are value * CoordScale, so that range * 0.15 is exact
CoordScale == 100

\* value / max as an exact quotient
Frac(n, d) == [num |-> n, den |-> d]

\* rows a chart table is drawn from: the two sample rows, a row without
\* G-Value, a row with the largest G-Value and no VLT, an empty row, a row of zeros
ChartRowChoices ==
    { [Supplier |-> "AGC EU", G |-> 34, VLT |-> 5900],
      [Supplier |-> "Guardian ME", G |-> 38, VLT |-> 6300],
      [Supplier |-> "AGC EU", G |-> NaN, VLT |-> 6300],
      [Supplier |-> "Guardian ME", G |-> 40, VLT |-> NaN],
      [Supplier |-> None, G |-> NaN, VLT |-> NaN],
      [Supplier |-> "Guardian ME", G |-> NaN, VLT |-> NaN],
      [Supplier |-> "AGC EU", G |-> 0, VLT |-> 0] }

\* values of the two target number inputs
TargetChoices(axis) == IF axis = "VLT" THEN { 6000, 6100 } ELSE { 35, 36 }

\* variant of dropna_index: how="all", a row goes only when every column of
\* cols is missing
dropna_index_all(t, cols) ==
    SelectSeq([i \in 1..Len(t) |-> i], LAMBDA i : \E c \in cols : ~isna(t[i], c))

\* the index labels of the rows dropna(subset=cols) keeps, in table order
dropna_index(t, cols) ==
    SelectSeq([i \in 1..Len(t) |-> i], LAMBDA i : \A c \in cols : ~isna(t[i], c))

\* t[col] over the rows idx
Column(t, idx, col) == [k \in 1..Len(idx) |-> Cell(t[idx[k]], col)]

larger_than_metrics == { "VLT", "Color Rendering Index" }

\* variant of ScatterRange: the observed range, without the floor for equal
\* values
ScatterRangeObserved(vals) == SeqMax(vals) - SeqMin(vals)

\* x_range = (x_max - x_min) if (x_max > x_min) else max(abs(x_min), 1.0)
ScatterRange(vals) ==
    IF SeqMax(vals) > SeqMin(vals) THEN SeqMax(vals) - SeqMin(vals)
    ELSE Max2(Abs(SeqMin(vals)), Unit)

\* variant of Margin: a 10 per cent margin
MarginTenPercent(vals) == ScatterRange(vals) * 10

\* range * 0.15, in chart coordinates
Margin(vals) == ScatterRange(vals) * 15

\* variant of TargetZone: every metric treated as lower-is-better
TargetZoneAllLower(axis, vals, target) ==
    << SeqMin(vals) * CoordScale - Margin(vals), target * CoordScale >>

\* the highlighted interval of one axis
TargetZone(axis, vals, target) ==
    IF axis \in larger_than_metrics
    THEN << target * CoordScale, SeqMax(vals) * CoordScale + Margin(vals) >>
    ELSE << SeqMin(vals) * CoordScale - Margin(vals), target * CoordScale >>

\* [min - margin, max + margin]
PaddedAxis(vals) ==
    << SeqMin(vals) * CoordScale - Margin(vals), SeqMax(vals) * CoordScale + Margin(vals) >>

\* the three add_shape calls under show_targets
TargetShapes(x_axis, y_axis, xs, ys, x_target, y_target) ==
    << [type |-> "rect",
        x0 |-> TargetZone(x_axis, xs, x_target)[1], x1 |-> TargetZone(x_axis, xs, x_target)[2],
        y0 |-> TargetZone(y_axis, ys, y_target)[1], y1 |-> TargetZone(y_axis, ys, y_target)[2]],
       [type |-> "line",
        x0 |-> x_target * CoordScale, x1 |-> x_target * CoordScale,
        y0 |-> PaddedAxis(ys)[1], y1 |-> PaddedAxis(ys)[2]],
       [type |-> "line",
        x0 |-> PaddedAxis(xs)[1], x1 |-> PaddedAxis(xs)[2],
        y0 |-> y_target * CoordScale, y1 |-> y_target * CoordScale] >>

\* variant of create_scatter_plot: the return after the warning is missing,
\* so a figure without points is still drawn
create_scatter_plot_no_return(cur, x_axis, y_axis, show_targets, x_target, y_target) ==
    LET plot_rows == dropna_index(cur, { x_axis, y_axis })
        xs == Column(cur, plot_rows, x_axis)
        ys == Column(cur, plot_rows, y_axis)
    IN  IF Len(plot_rows) = 0
        THEN [notice |-> { "scatter: no valid data" },
              fig |-> [kind |-> "scatter", rows |-> << >>, traces |-> << >>,
                       margin_x |-> 15 * Unit, margin_y |-> 15 * Unit,
                       xaxis |-> << 0, 0 >>, yaxis |-> << 0, 0 >>, shapes |-> << >>]]
        ELSE [notice |-> {},
              fig |-> [kind |-> "scatter",
                       rows |-> plot_rows,
                       traces |-> [k \in 1..Len(plot_rows) |-> << xs[k], ys[k] >>],
                       margin_x |-> Margin(xs),
                       margin_y |-> Margin(ys),
                       xaxis |-> PaddedAxis(xs),
                       yaxis |-> PaddedAxis(ys),
                       shapes |-> IF show_targets
                                  THEN TargetShapes(x_axis, y_axis, xs, ys, x_target, y_target)
                                  ELSE << >>]]

\* the scatter tab of main.py and create_scatter_plot
create_scatter_plot(cur, x_axis, y_axis, show_targets, x_target, y_target) ==
    LET plot_rows == dropna_index(cur, { x_axis, y_axis })
        xs == Column(cur, plot_rows, x_axis)
        ys == Column(cur, plot_rows, y_axis)
    IN  IF Len(plot_rows) = 0
        THEN [notice |-> { "scatter: no valid data" }, fig |-> NoFig]
        ELSE [notice |-> {},
              fig |-> [kind |-> "scatter",
                       rows |-> plot_rows,
                       traces |-> [k \in 1..Len(plot_rows) |-> << xs[k], ys[k] >>],
                       margin_x |-> Margin(xs),
                       margin_y |-> Margin(ys),
                       xaxis |-> PaddedAxis(xs),
                       yaxis |-> PaddedAxis(ys),
                       shapes |-> IF show_targets
                                  THEN TargetShapes(x_axis, y_axis, xs, ys, x_target, y_target)
                                  ELSE << >>]]

\* variant of label_positions: the priority order of adjust_label_positions
label_positions_priority ==
    << "top right", "top left", "bottom right", "bottom left",
       "top center", "middle right", "middle left", "bottom center" >>

\* the fixed list of the scatter tab of main.py
label_positions ==
    << "top center", "bottom center", "middle left", "middle right",
       "top left", "top right", "bottom left", "bottom right" >>

\* textpos = label_positions[idx % len(label_positions)] if annotation_text else "";
\* idx counts the plotted rows from 0, show_labels says a text checkbox is ticked
textpos(idx, show_labels) ==
    IF show_labels THEN label_positions[(idx % Len(label_positions)) + 1] ELSE ""

\* the scatter tab of main.py gives each trace its textposition from the
\* fixed list; create_scatter_plot of plots/ calls adjust_label_positions
\* instead (the loop of that function is the subject of Spec)
scatter_tab(h, result, show_labels) ==
    IF h = "main" /\ result.fig # NoFig
    THEN [notice |-> result.notice,
          fig |-> [kind |-> result.fig.kind,
                   rows |-> result.fig.rows,
                   traces |-> result.fig.traces,
                   margin_x |-> result.fig.margin_x,
                   margin_y |-> result.fig.margin_y,
                   xaxis |-> result.fig.xaxis,
                   yaxis |-> result.fig.yaxis,
                   shapes |-> result.fig.shapes,
                   textposition |-> [k \in 1..Len(result.fig.rows) |->
                                        textpos(k - 1, show_labels)]]]
    ELSE result

\* variant of BarOrders: sort_values with ascending=True
BarOrdersAscending(cur, rows, sort_by) ==
    IF sort_by = "Supplier" THEN { rows }
    ELSE { o \in [1..Len(rows) -> Range(rows)] :
              /\ \A a, b \in 1..Len(rows) : a # b => o[a] # o[b]
              /\ \A a \in 1..(Len(rows) - 1) :
                    Cell(cur[o[a]], sort_by) <= Cell(cur[o[a + 1]], sort_by) }

\* the orders bar_df can have after the optional sort_values(ascending=False);
\* rows with equal keys may come in any order
BarOrders(cur, rows, sort_by) ==
    IF sort_by = "Supplier" THEN { rows }
    ELSE { o \in [1..Len(rows) -> Range(rows)] :
              /\ \A a, b \in 1..Len(rows) : a # b => o[a] # o[b]
              /\ \A a \in 1..(Len(rows) - 1) :
                    Cell(cur[o[a]], sort_by) >= Cell(cur[o[a + 1]], sort_by) }

\* variant of bar_normalized: min-max scaling instead of division by the max
bar_normalized_minmax(vals) ==
    IF SeqMax(vals) > SeqMin(vals)
    THEN [k \in 1..Len(vals) |-> Frac(vals[k] - SeqMin(vals), SeqMax(vals) - SeqMin(vals))]
    ELSE [k \in 1..Len(vals) |-> Frac(0, 1)]

\* normalized = actual_values / max_val if max_val > 0 else zeros
bar_normalized(vals) ==
    IF SeqMax(vals) > 0
    THEN [k \in 1..Len(vals) |-> Frac(vals[k], SeqMax(vals))]
    ELSE [k \in 1..Len(vals) |-> Frac(0, 1)]

\* variant of create_bar_chart: the divisor is taken from current_df, before
\* the rows with a missing selected metric are dropped
create_bar_chart_table_max(cur, metrics_to_compare, sort_by, order) ==
    IF Len(metrics_to_compare) = 0
    THEN [notice |-> { "bar: select at least one metric" }, fig |-> NoFig]
    ELSE IF Len(dropna_index(cur, Range(metrics_to_compare))) = 0
    THEN [notice |-> { "bar: no valid data" }, fig |-> NoFig]
    ELSE [notice |-> {},
          fig |-> [kind |-> "bar",
                   rows |-> order,
                   traces |-> [m \in 1..Len(metrics_to_compare) |->
                                  [name |-> metrics_to_compare[m],
                                   y |-> [k \in 1..Len(order) |->
                                            Frac(Cell(cur[order[k]], metrics_to_compare[m]),
                                                 SeqMax(Column(cur,
                                                     dropna_index(cur, { metrics_to_compare[m] }),
                                                     metrics_to_compare[m])))]]]]]

\* the bar tab of main.py and create_bar_chart; order is the row order of bar_df
create_bar_chart(cur, metrics_to_compare, sort_by, order) ==
    IF Len(metrics_to_compare) = 0
    THEN [notice |-> { "bar: select at least one metric" }, fig |-> NoFig]
    ELSE IF Len(dropna_index(cur, Range(metrics_to_compare))) = 0
    THEN [notice |-> { "bar: no valid data" }, fig |-> NoFig]
    ELSE [notice |-> {},
          fig |-> [kind |-> "bar",
                   rows |-> order,
                   traces |-> [m \in 1..Len(metrics_to_compare) |->
                                  [name |-> metrics_to_compare[m],
                                   y |-> bar_normalized(
                                            Column(cur, order, metrics_to_compare[m]))]]]]

\* current_df[col].max(), NaN skipped; 1.0 when there is none or it is not > 0
global_max(cur, col) ==
    LET present == { Cell(cur[i], col) : i \in { k \in 1..Len(cur) : ~isna(cur[k], col) } }
    IN  IF present = {} THEN Unit
        ELSE LET max_val == CHOOSE m \in present : \A v \in present : m >= v
             IN  IF max_val > 0 THEN max_val ELSE Unit

\* variant of supplier_rows: a row is kept only with every metric present
supplier_rows_complete(cur, supplier) ==
    SelectSeq([i \in 1..Len(cur) |-> i],
              LAMBDA i : /\ cur[i].Supplier = supplier
                         /\ \A c \in Range(numeric_cols) : ~isna(cur[i], c))

\* rows of one supplier that dropna(subset=numeric_cols, thresh=len // 2) keeps
supplier_rows(cur, supplier) ==
    SelectSeq([i \in 1..Len(cur) |-> i],
              LAMBDA i : /\ cur[i].Supplier = supplier
                         /\ Cardinality({ c \in Range(numeric_cols) : ~isna(cur[i], c) })
                                >= Len(numeric_cols) \div 2)

\* val / global_max[metric], 0 for a missing value
radial_value(cur, i, metric) ==
    IF ~isna(cur[i], metric)
    THEN Frac(Cell(cur[i], metric), global_max(cur, metric))
    ELSE Frac(0, 1)

\* variant of radial_trace: the polygon is not closed
radial_trace_open(cur, supplier, i) ==
    [supplier |-> supplier,
     row |-> i,
     r |-> [k \in 1..Len(numeric_cols) |-> radial_value(cur, i, numeric_cols[k])],
     theta |-> numeric_cols]

\* one Scatterpolar trace: the metrics in order, then the first one again
radial_trace(cur, supplier, i) ==
    [supplier |-> supplier,
     row |-> i,
     r |-> [k \in 1..Len(numeric_cols) |-> radial_value(cur, i, numeric_cols[k])]
              \o << radial_value(cur, i, numeric_cols[1]) >>,
     theta |-> numeric_cols \o << numeric_cols[1] >>]

\* variant of create_radial_plots: no prompt for an empty selection
create_radial_plots_no_prompt(cur, selected_suppliers) ==
    IF unique_suppliers(cur) = {}
    THEN [notice |-> { "radial: no supplier data" }, fig |-> NoFig]
    ELSE [notice |-> {},
          fig |-> [kind |-> "radial",
                   plots |-> UNION { { radial_trace(cur, sup, i) :
                                          i \in Range(supplier_rows(cur, sup)) } :
                                     sup \in selected_suppliers }]]

\* the radial tab of main.py and create_radial_plots
create_radial_plots(cur, selected_suppliers) ==
    IF unique_suppliers(cur) = {}
    THEN [notice |-> { "radial: no supplier data" }, fig |-> NoFig]
    ELSE IF selected_suppliers = {}
    THEN [notice |-> { "radial: select at least one supplier" }, fig |-> NoFig]
    ELSE [notice |-> {},
          fig |-> [kind |-> "radial",
                   plots |-> UNION { { radial_trace(cur, sup, i) :
                                          i \in Range(supplier_rows(cur, sup)) } :
                                     sup \in selected_suppliers }]]

\* create_parallel_coordinates: every row, missing values filled with 0
create_parallel_coordinates(cur) ==
    IF Len(fillna0(cur)) = 0
    THEN [notice |-> { "parallel: no data" }, fig |-> NoFig]
    ELSE [notice |-> {},
          fig |-> [kind |-> "parallel",
                   rows |-> [i \in 1..Len(cur) |-> i],
                   lines |-> fillna0(cur)]]

\* st.info, st.warning or st.error, by message
NoticeLevel(msg) ==
    IF msg \in { "scatter: no valid data", "bar: no valid data" } THEN "warning"
    ELSE "info"

\* ------------------------------------------------- chart builders, actions
InitCharts ==
    /\ LabelNotCalled
    /\ SessionNotStarted
    /\ api = [ret |-> TRUE, wv |-> FALSE, on_change |-> TRUE]
    /\ host \in { "main", "plots" }
    /\ chart_df \in SeqsUpTo(ChartRowChoices, MaxChartRows)
    /\ chart = "none"
    /\ chart_in = [none |-> TRUE]
    /\ chart_notice = {}
    /\ fig = NoFig

\* main.py builds its tabs under len(current_df) > 0; the functions of plots/
\* are called on any table
MayBuild == chart = "none" /\ (host = "main" => Len(chart_df) > 0)

Built(name, inputs, result) ==
    /\ chart' = name
    /\ chart_in' = inputs
    /\ chart_notice' = result.notice
    /\ fig' = result.fig
    /\ UNCHANGED << host, chart_df >>
    /\ UNCHANGED << labelVars, sessionVars >>

BuildScatter ==
    /\ MayBuild
    /\ \E x_axis \in Range(numeric_cols), y_axis \in Range(numeric_cols),
          show_targets \in BOOLEAN, show_labels \in BOOLEAN :
        \E x_target \in TargetChoices(x_axis), y_target \in TargetChoices(y_axis) :
            Built("scatter",
                  [x_axis |-> x_axis, y_axis |-> y_axis, show_targets |-> show_targets,
                   x_target |-> x_target, y_target |-> y_target,
                   show_labels |-> show_labels],
                  scatter_tab(host,
                              create_scatter_plot(chart_df, x_axis, y_axis, show_targets,
                                                  x_target, y_target),
                              show_labels))

BuildBar ==
    /\ MayBuild
    /\ \E metrics_to_compare \in MetricSelections :
        \E sort_by \in { "Supplier" } \cup Range(metrics_to_compare) :
            \E order \in BarOrders(chart_df,
                                   dropna_index(chart_df, Range(metrics_to_compare)),
                                   sort_by) :
                Built("bar",
                      [metrics_to_compare |-> metrics_to_compare, sort_by |-> sort_by],
                      create_bar_chart(chart_df, metrics_to_compare, sort_by, order))

BuildRadial ==
    /\ MayBuild
    /\ \E selected_suppliers \in SUBSET unique_suppliers(chart_df) :
        Built("radial",
              [selected_suppliers |-> selected_suppliers],
              create_radial_plots(chart_df, selected_suppliers))

BuildParallel ==
    /\ MayBuild
    /\ host = "plots"
    /\ Built("parallel", [none |-> TRUE], create_parallel_coordinates(chart_df))

\* main.py with an empty table: st.info instead of the tabs
ShowAddData ==
    /\ chart = "none"
    /\ host = "main"
    /\ Len(chart_df) = 0
    /\ Built("empty", [none |-> TRUE], [notice |-> { "add data to the table" }, fig |-> NoFig])

NextCharts == BuildScatter \/ BuildBar \/ BuildRadial \/ BuildParallel \/ ShowAddData

SpecCharts == InitCharts /\ [][NextCharts]_vars

\* ------------------------------------------- main.py, scatter tab on long tables
\* a row with both values and a row without a G-Value
LabelRowChoices ==
    { [Supplier |-> "AGC EU", G |-> 34, VLT |-> 5900],
      [Supplier |-> "Guardian ME", G |-> NaN, VLT |-> 6300] }

InitMainScatter ==
    /\ LabelNotCalled
    /\ SessionNotStarted
    /\ api = [ret |-> TRUE, wv |-> FALSE, on_change |-> TRUE]
    /\ host = "main"
    /\ chart_df \in SeqsUpTo(LabelRowChoices, MaxLabelRows)
    /\ chart = "none"
    /\ chart_in = [none |-> TRUE]
    /\ chart_notice = {}
    /\ fig = NoFig

NextMainScatter == BuildScatter \/ ShowAddData

SpecMainScatter == InitMainScatter /\ [][NextMainScatter]_vars

\* ------------------------------------------------------------ properties
\* The claims are stated on the geometry of the label rectangles, written
\* out here independently of check_overlap and of the for/else loop.

EightOffsets ==
    { "top right", "top left", "bottom right", "bottom left",
      "top center", "middle right", "middle left", "bottom center" }

ClaimedOrder ==
    << "top right", "top left", "bottom right", "bottom left",
       "top center", "middle right", "middle left", "bottom center" >>

OrderIndex(p) == CHOOSE k \in 1..Len(ClaimedOrder) : ClaimedOrder[k] = p

\* centre of the label rectangle of row i of table df at offset p
CandX(tbl, i, p) ==
    normalize_coords(tbl[i].x, tbl[i].y, tbl, x_range, y_range)[1]
        + Hx(position_offsets[p][1], x_range)

CandY(tbl, i, p) ==
    normalize_coords(tbl[i].x, tbl[i].y, tbl, x_range, y_range)[2]
        + Hy(position_offsets[p][2], y_range)

\* two 0.15 x 0.10 rectangles centred at (ax, ay) and (bx, by) share interior
\* points: each one's low edge lies below the other's high edge, on both axes
\* (edges doubled, to stay in integers)
RectsIntersect(ax, ay, bx, by) ==
    /\ 2 * ax - Hx(15, x_range) < 2 * bx + Hx(15, x_range)
    /\ 2 * bx - Hx(15, x_range) < 2 * ax + Hx(15, x_range)
    /\ 2 * ay - Hy(10, y_range) < 2 * by + Hy(10, y_range)
    /\ 2 * by - Hy(10, y_range) < 2 * ay + Hy(10, y_range)

\* offset p is acceptable for row i: its rectangle intersects no rectangle
\* occupied by an earlier row
Acceptable(i, p) ==
    \A j \in 1..(i - 1) :
        ~RectsIntersect(CandX(table_in, i, p), CandY(table_in, i, p),
                        occupied_zones[j][1], occupied_zones[j][2])

\* occupied_zones[i] is the rectangle of row i at the position given to row i
ZoneOfRow(i) ==
    /\ occupied_zones[i][1] = CandX(table_in, i, positions[i])
    /\ occupied_zones[i][2] = CandY(table_in, i, positions[i])

\* C1: rows are processed in input order, and every row that has an
\* acceptable offset is given the first acceptable offset of the priority
\* order top right, top left, bottom right, bottom left, top center, middle
\* right, middle left, bottom center; no offset earlier in that order than
\* the chosen one was acceptable.
C1_FirstAcceptableOffset ==
    /\ Len(positions) = row_i
    /\ Len(occupied_zones) = row_i
    /\ \A i \in 1..row_i :
        /\ ZoneOfRow(i)
        /\ \A k \in 1..Len(ClaimedOrder) :
              ( /\ Acceptable(i, ClaimedOrder[k])
                /\ \A m \in 1..(k - 1) : ~Acceptable(i, ClaimedOrder[m]) )
              => positions[i] = ClaimedOrder[k]
        /\ \A m \in 1..(OrderIndex(positions[i]) - 1) : ~Acceptable(i, ClaimedOrder[m])

\* a row was given the fourth offset of the order because the first three
\* were taken around it
C1_Witness ==
    \E i \in 1..row_i :
        /\ i <= Len(positions)
        /\ positions[i] = "bottom left"
        /\ Acceptable(i, "bottom left")
        /\ ~Acceptable(i, "top right")

\* all eight offsets of row i intersect an occupied rectangle
AllOverlap(i) == \A p \in EightOffsets : ~Acceptable(i, p)

\* C2 as claimed: when all eight offsets of a row overlap, the row is given
\* top right, the first offset of the priority order, and its rectangle is
\* appended.
C2_FallbackIsTopRight ==
    /\ Len(occupied_zones) = row_i
    /\ \A i \in 1..row_i :
          AllOverlap(i) => (positions[i] = "top right" /\ ZoneOfRow(i))

\* C2, amended: when all eight offsets of a row overlap, the row is given
\* the default position top center (the fifth offset of the priority order,
\* not the first), the rectangle of that offset is still appended, and the
\* occupied list holds exactly one rectangle per processed row.
C2_FallbackIsTopCenter ==
    /\ Len(occupied_zones) = row_i
    /\ \A i \in 1..row_i :
          AllOverlap(i) => ( /\ i <= Len(positions)
                             /\ positions[i] = "top center"
                             /\ fallback[i]
                             /\ ZoneOfRow(i) )

C2_Witness ==
    \E i \in 1..row_i : AllOverlap(i) /\ fallback[i] /\ Len(occupied_zones) = i

\* no candidate rectangle of one row intersects a candidate rectangle of
\* another row
WellSeparated(tbl) ==
    \A i, j \in 1..Len(tbl) :
        i # j => \A p, q \in EightOffsets :
                    ~RectsIntersect(CandX(tbl, i, p), CandY(tbl, i, p),
                                    CandX(tbl, j, q), CandY(tbl, j, q))

\* C3 as claimed: on a well separated table every row gets an offset
\* distinct from the offsets of all other rows, and no row takes the
\* fallback path.
C3_DistinctOffsets ==
    WellSeparated(table_in) =>
        /\ \A i, j \in 1..Len(positions) : i # j => positions[i] # positions[j]
        /\ \A i \in 1..Len(fallback) : ~fallback[i]

\* C3, amended: on a well separated table of at most 8 rows no row takes
\* the fallback path and the labels are pairwise disjoint rectangles, but
\* the offsets are not distinct: every row gets the same offset, top right.
C3_AllTopRight ==
    WellSeparated(table_in) =>
        /\ \A i \in 1..Len(fallback) : ~fallback[i]
        /\ \A i \in 1..Len(positions) : positions[i] = "top right"
        /\ \A i, j \in 1..Len(occupied_zones) :
              i # j => ~RectsIntersect(occupied_zones[i][1], occupied_zones[i][2],
                                       occupied_zones[j][1], occupied_zones[j][2])

C3_Witness ==
    /\ WellSeparated(table_in)
    /\ Len(table_in) >= 3
    /\ pc = "done"
    /\ Len(positions) = Len(table_in)

\* C4: the call returns exactly one position per input row, in input order,
\* each one of the eight named offsets; an empty table gives an empty list.
C4_OnePositionPerRow ==
    pc = "done" =>
        /\ Len(positions) = Len(table_in)
        /\ returned[Len(returned)].output = positions
        /\ \A i \in 1..Len(positions) : positions[i] \in EightOffsets /\ ZoneOfRow(i)
        /\ (table_in = << >> => positions = << >>)

C4_Witness ==
    /\ pc = "done"
    /\ Len(table_in) = MaxPoints
    /\ \E i \in 1..Len(fallback) : fallback[i]

\* distance of the centres, on x and on y, of the rectangle of the row
\* processed last at offset p and the occupied rectangle j
DistX(p, j) == Abs(norm[1] + Hx(position_offsets[p][1], x_range) - occupied_zones[j][1])

DistY(p, j) == Abs(norm[2] + Hy(position_offsets[p][2], y_range) - occupied_zones[j][2])

\* offsets check_overlap was asked about for the row processed last
Tested == rejected \cup (IF fallback[row_i] THEN {} ELSE { positions[row_i] })

\* C5: a candidate rectangle, 0.15 wide and 0.10 high and centred at the
\* normalized point plus the offset, is rejected exactly when some occupied
\* rectangle is closer than 0.15 on x and closer than 0.10 on y, both
\* strictly; a distance equal to 0.15 on x or to 0.10 on y is no overlap.
C5_StrictOverlapTest ==
    (row_i >= 1 /\ Len(positions) = row_i) =>
        /\ occupied_zones[row_i] =
              << norm[1] + Hx(position_offsets[positions[row_i]][1], x_range),
                 norm[2] + Hy(position_offsets[positions[row_i]][2], y_range),
                 Hx(15, x_range), Hy(10, y_range) >>
        /\ \A p \in Tested :
              p \in rejected <=>
                  \E j \in 1..(row_i - 1) :
                      DistX(p, j) < Hx(15, x_range) /\ DistY(p, j) < Hy(10, y_range)

\* an offset was accepted whose rectangle touches an occupied one: centres
\* exactly 0.15 apart on x and closer than 0.10 on y
C5_Witness ==
    /\ row_i >= 2
    /\ Len(positions) = row_i
    /\ ~fallback[row_i]
    /\ \E j \in 1..(row_i - 1) :
          /\ DistX(positions[row_i], j) = Hx(15, x_range)
          /\ DistY(positions[row_i], j) < Hy(10, y_range)

\* the x (y) values of the table all agree
ZeroRangeX(tbl) == tbl # << >> /\ SeqMax(x_vals(tbl)) = SeqMin(x_vals(tbl))

ZeroRangeY(tbl) == tbl # << >> /\ SeqMax(y_vals(tbl)) = SeqMin(y_vals(tbl))

\* C6: a coordinate is normalized as (value - observed min) / range, and on
\* an axis whose observed range is zero every row is centred at 0.5, also
\* when the placement is called by the scatter chart builder.
C6_ZeroRangeCentred ==
    row_i >= 1 =>
        /\ ZeroRangeX(table_in) => norm[1] = Hx(50, x_range)
        /\ ZeroRangeY(table_in) => norm[2] = Hy(50, y_range)
        /\ ~ZeroRangeX(table_in) =>
              norm[1] * x_range
                  = (table_in[row_i].x - SeqMin(x_vals(table_in))) * Hx(100, x_range)
        /\ ~ZeroRangeY(table_in) =>
              norm[2] * y_range
                  = (table_in[row_i].y - SeqMin(y_vals(table_in))) * Hy(100, y_range)

\* C7: two calls on the same ordered rows and the same ranges return the
\* same position sequence, whatever call came before.
C7_Deterministic ==
    \A a, b \in 1..Len(returned) :
        returned[a].input = returned[b].input => returned[a].output = returned[b].output

C7_Witness ==
    /\ Len(returned) >= 2
    /\ returned[1].input = returned[2].input
    /\ Len(returned[2].output) >= 2
    /\ \E i \in 1..Len(fallback) : fallback[i]

\* C8: the call has no side effect: the table keeps its rows, values and
\* order, the occupied list holds only rectangles of the running call, and
\* the result is the returned list of positions.
C8_NoSideEffects ==
    /\ plot_df = table_in
    /\ Len(occupied_zones) = row_i
    /\ \A a \in 1..Len(returned) : returned[a].input[1] = table_in
    /\ pc = "done" => returned[Len(returned)].output = positions

C8_Witness ==
    /\ pc = "done"
    /\ Len(returned) = 2
    /\ Len(table_in) >= 2
    /\ \E i, j \in 1..Len(table_in) : table_in[i] # table_in[j]

\* C9: at the end of every script run in which the editor yields a table
\* (as returned value or as widget state) the canonical table is the full
\* content of the editable copy, whatever rows were added, deleted or
\* edited; when neither is a table the canonical table is the one the run
\* started with.
C9_FullReplaceSync ==
    spc = "idle" =>
        /\ has_df
        /\ (api.ret \/ api.wv) => df = editor
        /\ (~api.ret /\ ~api.wv) => df = run_log.start

\* the run after an added row and an edited cell left both in the canonical table
C9_Witness ==
    /\ spc = "idle"
    /\ n_edits = 2
    /\ Len(editor) = 3
    /\ editor[1].G = NaN
    /\ df = editor
    /\ df # run_log.start

\* C10: neither the chart tabs nor a warning, info or error path changes
\* the canonical table: after the charts are built or a 'no valid data' or
\* 'select at least one' message is shown the table is the one of line 113,
\* and a manual save that finds no valid edits leaves the table as it was.
C10_ChartsKeepTable ==
    /\ spc = "idle" => df = run_log.saved
    /\ (spc \in { "charts", "idle" } /\ "save: no valid edits" \in notices) =>
          (run_log.saved = run_log.synced /\ run_log.saved = run_log.start)

\* a run on a table with an empty cell that showed a 'no valid data'
\* warning in one tab and built the chart of another
C10_Witness ==
    /\ spc = "idle"
    /\ "scatter: no valid data" \in notices
    /\ "parallel" \in built
    /\ \E i \in 1..Len(df) : df[i].G = NaN

\* ------------------------------------------------------------ chart properties
\* the largest value of metric m over the rows idx of the table that have one
\* (-1, the missing marker, when none has)
MaxOver(t, idx, m) ==
    LET vs == { Cell(t[i], m) : i \in { k \in idx : ~isna(t[k], m) } }
    IN  IF vs = {} THEN NaN ELSE CHOOSE v \in vs : \A w \in vs : v >= w

AllRows(t) == 1..Len(t)

\* quotient q equals n / d (d > 0)
IsQuotient(q, n, d) == q.den > 0 /\ q.num * d = n * q.den

\* C11: for every row shown in the bar or radial chart and every plotted
\* metric the row has a value for, the normalized value is raw / max of the
\* metric (over the plotted rows in the bar chart, over the table in the
\* radial chart) when that max is > 0 and 0 when it is not; every bar value
\* lies in [0, 1].
C11_NormalizedByMax ==
    /\ (chart = "bar" /\ fig.kind = "bar") =>
          \A m \in 1..Len(fig.traces) : \A k \in 1..Len(fig.rows) :
              LET metric == fig.traces[m].name
                  raw == Cell(chart_df[fig.rows[k]], metric)
                  mx == MaxOver(chart_df, Range(fig.rows), metric)
                  y == fig.traces[m].y[k]
              IN  /\ mx > 0 => IsQuotient(y, raw, mx)
                  /\ ~(mx > 0) => (y.num = 0 /\ y.den > 0)
                  /\ 0 <= y.num /\ y.num <= y.den
    /\ (chart = "radial" /\ fig.kind = "radial") =>
          \A tr \in fig.plots : \A k \in 1..Len(numeric_cols) :
              LET metric == numeric_cols[k]
                  mx == MaxOver(chart_df, AllRows(chart_df), metric)
              IN  ~isna(chart_df[tr.row], metric) =>
                      /\ mx > 0 => IsQuotient(tr.r[k], Cell(chart_df[tr.row], metric), mx)
                      /\ ~(mx > 0) => (tr.r[k].num = 0 /\ tr.r[k].den > 0)

\* a bar strictly between 0 and 1
C11_Witness ==
    /\ chart = "bar"
    /\ fig.kind = "bar"
    /\ \E m \in 1..Len(fig.traces) : \E k \in 1..Len(fig.rows) :
          0 < fig.traces[m].y[k].num /\ fig.traces[m].y[k].num < fig.traces[m].y[k].den

OneCoatingAtMaxima(t, sup, i) ==
    /\ { k \in 1..Len(t) : t[k].Supplier = sup } = { i }
    /\ \A c \in Range(numeric_cols) :
          /\ ~isna(t[i], c)
          /\ Cell(t[i], c) > 0
          /\ Cell(t[i], c) = MaxOver(t, AllRows(t), c)

\* C13: for a selected supplier with one coating whose metrics all equal
\* the table maxima (> 0), the radial chart has one trace for it, every
\* radius is 1.0, and the polygon is closed: one vertex more than metrics,
\* the last vertex repeating the first metric and the first radius.
C13_ClosedUnitPolygon ==
    (chart = "radial" /\ fig.kind = "radial") =>
        \A sup \in chart_in.selected_suppliers : \A i \in 1..Len(chart_df) :
            OneCoatingAtMaxima(chart_df, sup, i) =>
                /\ \E tr \in fig.plots : tr.supplier = sup /\ tr.row = i
                /\ \A tr \in fig.plots :
                      tr.supplier = sup =>
                          /\ tr.row = i
                          /\ Len(tr.r) = Len(numeric_cols) + 1
                          /\ Len(tr.theta) = Len(numeric_cols) + 1
                          /\ \A k \in 1..Len(tr.r) : tr.r[k].num = tr.r[k].den /\ tr.r[k].den > 0
                          /\ \A k \in 1..Len(numeric_cols) : tr.theta[k] = numeric_cols[k]
                          /\ tr.theta[Len(tr.theta)] = numeric_cols[1]
                          /\ tr.r[Len(tr.r)] = tr.r[1]

C13_Witness ==
    /\ chart = "radial"
    /\ fig.kind = "radial"
    /\ Len(chart_df) >= 2
    /\ \E sup \in chart_in.selected_suppliers : \E i \in 1..Len(chart_df) :
          OneCoatingAtMaxima(chart_df, sup, i)

\* the table of the scenario: G-Value 0.34 and 0.38, VLT 59.0 and 63.0
TwoRowScenario ==
    << [Supplier |-> "AGC EU", G |-> 34, VLT |-> 5900],
       [Supplier |-> "Guardian ME", G |-> 38, VLT |-> 6300] >>

\* C14: for the two-row table G-Value {0.34, 0.38}, VLT {59.0, 63.0} the
\* scatter chart of x = G-Value, y = VLT has exactly the two points
\* (0.34, 59.0) and (0.38, 63.0), the x padding (0.38 - 0.34) * 0.15 = 0.006
\* and the x axis range [0.334, 0.386].
C14_TwoRowScatter ==
    ( /\ chart = "scatter"
      /\ chart_df = TwoRowScenario
      /\ chart_in.x_axis = "G"
      /\ chart_in.y_axis = "VLT" ) =>
        /\ fig.kind = "scatter"
        /\ fig.traces = << << 34, 5900 >>, << 38, 6300 >> >>
        /\ fig.margin_x = 60
        /\ fig.xaxis = << 3340, 3860 >>

C14_Witness ==
    /\ chart = "scatter"
    /\ chart_df = TwoRowScenario
    /\ chart_in.x_axis = "G"
    /\ chart_in.y_axis = "VLT"
    /\ fig.kind = "scatter"

\* row i of the table lacks a value for one of the metrics ms
LacksOneOf(t, i, ms) == \E c \in ms : isna(t[i], c)

\* C15: in the bar chart a row that lacks a value for any one selected
\* metric is left out entirely: it has no bar in any trace, also not for
\* the metrics it has a value for, and no value is filled in for it.
C15_RowLevelDrop ==
    (chart = "bar" /\ fig.kind = "bar") =>
        /\ \A i \in 1..Len(chart_df) :
              LacksOneOf(chart_df, i, Range(chart_in.metrics_to_compare)) =>
                  i \notin Range(fig.rows)
        /\ \A m \in 1..Len(fig.traces) : Len(fig.traces[m].y) = Len(fig.rows)
        /\ Len(fig.traces) = Len(chart_in.metrics_to_compare)

\* a row with a G-Value and no VLT is missing from a chart of both metrics
C15_Witness ==
    /\ chart = "bar"
    /\ fig.kind = "bar"
    /\ Len(chart_in.metrics_to_compare) = 2
    /\ \E i \in 1..Len(chart_df) :
          /\ ~isna(chart_df[i], "G")
          /\ isna(chart_df[i], "VLT")
          /\ i \notin Range(fig.rows)

\* the metrics a chart needs of a row
NeededMetrics ==
    IF chart = "scatter" THEN { chart_in.x_axis, chart_in.y_axis }
    ELSE IF chart = "bar" THEN Range(chart_in.metrics_to_compare)
    ELSE Range(numeric_cols)

\* the rows of the table that appear in the figure
ShownRows ==
    IF fig.kind = "radial" THEN { tr.row : tr \in fig.plots }
    ELSE Range(fig.rows)

\* the number of metrics row i has a value for
PresentCount(t, i) == Cardinality({ c \in Range(numeric_cols) : ~isna(t[i], c) })

\* C16 as claimed: in every chart type a row with a missing value for a
\* metric the chart needs is left out of the chart.
C16_MissingRowsExcluded ==
    (chart \in { "scatter", "bar", "radial", "parallel" } /\ fig # NoFig) =>
        \A i \in 1..Len(chart_df) :
            LacksOneOf(chart_df, i, NeededMetrics) => i \notin ShownRows

\* C16, amended: the scatter and the bar chart show exactly the rows with a
\* value for every needed metric; the radial chart shows a row of a selected
\* supplier when at least len(numeric_cols) // 2 of its metrics have a value
\* and draws a missing metric at radius 0; the parallel coordinates chart
\* shows every row with missing values replaced by 0.
C16_FilterPerChartType ==
    /\ (chart \in { "scatter", "bar" } /\ fig # NoFig) =>
          ShownRows = { i \in 1..Len(chart_df) : ~LacksOneOf(chart_df, i, NeededMetrics) }
    /\ (chart = "radial" /\ fig # NoFig) =>
          /\ ShownRows = { i \in 1..Len(chart_df) :
                             /\ chart_df[i].Supplier \in chart_in.selected_suppliers
                             /\ PresentCount(chart_df, i) >= Len(numeric_cols) \div 2 }
          /\ \A tr \in fig.plots : \A k \in 1..Len(numeric_cols) :
                isna(chart_df[tr.row], numeric_cols[k]) => tr.r[k].num = 0
    /\ (chart = "parallel" /\ fig # NoFig) =>
          /\ ShownRows = 1..Len(chart_df)
          /\ \A i \in 1..Len(chart_df) : \A c \in Range(numeric_cols) :
                Cell(fig.lines[i], c) = IF isna(chart_df[i], c) THEN 0 ELSE Cell(chart_df[i], c)

\* a radial trace of a row that lacks a metric
C16_Witness ==
    /\ chart = "radial"
    /\ fig # NoFig
    /\ \E tr \in fig.plots : LacksOneOf(chart_df, tr.row, Range(numeric_cols))

\* C17: when no row has a value for every metric the scatter or the bar
\* chart needs, the chart shows the 'no valid data' warning and no figure
\* is built.
C17_NoValidDataWarning ==
    /\ chart = "scatter" =>
          ((\A i \in 1..Len(chart_df) : LacksOneOf(chart_df, i, NeededMetrics)) =>
              /\ fig = NoFig
              /\ chart_notice = { "scatter: no valid data" }
              /\ \A n \in chart_notice : NoticeLevel(n) = "warning")
    /\ (chart = "bar" /\ Len(chart_in.metrics_to_compare) > 0) =>
          ((\A i \in 1..Len(chart_df) : LacksOneOf(chart_df, i, NeededMetrics)) =>
              /\ fig = NoFig
              /\ chart_notice = { "bar: no valid data" }
              /\ \A n \in chart_notice : NoticeLevel(n) = "warning")

\* a scatter chart of a table with rows, none of which has both values
C17_Witness ==
    /\ chart = "scatter"
    /\ Len(chart_df) > 0
    /\ \A i \in 1..Len(chart_df) : LacksOneOf(chart_df, i, NeededMetrics)
    /\ "scatter: no valid data" \in chart_notice

\* C18: with no metric selected the bar chart, and with no supplier
\* selected the radial chart, shows a notice of level info, nothing of
\* level warning or error, and builds no figure.
C18_EmptySelectionPrompt ==
    /\ (chart = "bar" /\ Len(chart_in.metrics_to_compare) = 0) =>
          /\ fig = NoFig
          /\ chart_notice = { "bar: select at least one metric" }
          /\ \A n \in chart_notice : NoticeLevel(n) = "info"
    /\ (chart = "radial" /\ chart_in.selected_suppliers = {}) =>
          /\ fig = NoFig
          /\ chart_notice # {}
          /\ \A n \in chart_notice : NoticeLevel(n) = "info"

\* the table has suppliers and none is selected
C18_Witness ==
    /\ chart = "radial"
    /\ unique_suppliers(chart_df) # {}
    /\ chart_in.selected_suppliers = {}
    /\ chart_notice = { "radial: select at least one supplier" }

\* the metrics for which larger values are better
HigherIsBetter == { "VLT", "Color Rendering Index" }

\* the interval the target rectangle covers on one axis
ClaimedZone(axis, target, padded) ==
    IF axis \in HigherIsBetter THEN << target * CoordScale, padded[2] >>
    ELSE << padded[1], target * CoordScale >>

\* C19: with targets shown, the rectangle runs on each axis from the target
\* to max + margin when the metric is VLT or Color Rendering Index and from
\* min - margin to the target otherwise; the vertical and the horizontal
\* line lie at the targets and span the padded range of the other axis.
C19_TargetShapes ==
    (chart = "scatter" /\ fig # NoFig /\ chart_in.show_targets) =>
        LET xs == [k \in 1..Len(fig.traces) |-> fig.traces[k][1]]
            ys == [k \in 1..Len(fig.traces) |-> fig.traces[k][2]]
            px == << SeqMin(xs) * CoordScale - fig.margin_x,
                     SeqMax(xs) * CoordScale + fig.margin_x >>
            py == << SeqMin(ys) * CoordScale - fig.margin_y,
                     SeqMax(ys) * CoordScale + fig.margin_y >>
        IN  /\ Len(fig.shapes) = 3
            /\ fig.xaxis = px /\ fig.yaxis = py
            /\ fig.shapes[1].type = "rect"
            /\ << fig.shapes[1].x0, fig.shapes[1].x1 >>
                  = ClaimedZone(chart_in.x_axis, chart_in.x_target, px)
            /\ << fig.shapes[1].y0, fig.shapes[1].y1 >>
                  = ClaimedZone(chart_in.y_axis, chart_in.y_target, py)
            /\ fig.shapes[2].type = "line"
            /\ fig.shapes[2].x0 = chart_in.x_target * CoordScale
            /\ fig.shapes[2].x1 = chart_in.x_target * CoordScale
            /\ << fig.shapes[2].y0, fig.shapes[2].y1 >> = py
            /\ fig.shapes[3].type = "line"
            /\ fig.shapes[3].y0 = chart_in.y_target * CoordScale
            /\ fig.shapes[3].y1 = chart_in.y_target * CoordScale
            /\ << fig.shapes[3].x0, fig.shapes[3].x1 >> = px

\* targets shown on a chart of G-Value (lower is better) against VLT
\* (higher is better)
C19_Witness ==
    /\ chart = "scatter"
    /\ fig # NoFig
    /\ chart_in.show_targets
    /\ chart_in.x_axis = "G"
    /\ chart_in.y_axis = "VLT"
    /\ Len(fig.traces) >= 2

\* ---------------------------------------------------- label order properties
\* rows i and j of tbl are distinct points whose top right rectangles
\* intersect, and no candidate rectangle of another row intersects a
\* candidate rectangle of either
IsolatedClosePair(tbl, i, j) ==
    /\ i # j
    /\ << tbl[i].x, tbl[i].y >> # << tbl[j].x, tbl[j].y >>
    /\ RectsIntersect(CandX(tbl, i, "top right"), CandY(tbl, i, "top right"),
                      CandX(tbl, j, "top right"), CandY(tbl, j, "top right"))
    /\ \A k \in 1..Len(tbl) :
          k \notin { i, j } =>
              \A p, q \in EightOffsets : \A m \in { i, j } :
                  ~RectsIntersect(CandX(tbl, k, p), CandY(tbl, k, p),
                                  CandX(tbl, m, q), CandY(tbl, m, q))

\* C20: the positions depend on the order of the rows: when a table with
\* an isolated close pair of rows is passed once in one order and once in
\* the opposite order, the row of the pair that comes first in the one
\* order gets a position in the first call that differs from its position
\* in the second.
C20_OrderDependent ==
    \A a, b \in 1..Len(returned) :
        LET tbl == returned[a].input[1]
            n == Len(tbl)
        IN  returned[b].input[1] = Reverse(tbl) =>
                \A i, j \in 1..n :
                    (i < j /\ IsolatedClosePair(tbl, i, j)) =>
                        /\ returned[a].output[i] = "top right"
                        /\ returned[b].output[n + 1 - i] # "top right"

\* both calls have returned on a table with an isolated close pair among
\* three rows
C20_Witness ==
    /\ Len(returned) = 2
    /\ Len(returned[1].input[1]) = 3
    /\ returned[2].input[1] = Reverse(returned[1].input[1])
    /\ \E i, j \in 1..3 : i < j /\ IsolatedClosePair(returned[1].input[1], i, j)
    /\ returned[1].output # Reverse(returned[2].output)

\* ------------------------------------------------------------ axis padding
\* the margin of an axis whose plotted values are vs, in chart coordinates
ClaimedMargin(vs) ==
    IF SeqMax(vs) > SeqMin(vs) THEN 15 * (SeqMax(vs) - SeqMin(vs))
    ELSE 15 * Max2(Abs(SeqMin(vs)), Unit)

\* the axis range is [min - m, max + m] with m the claimed margin, m > 0,
\* and every value of vs lies strictly inside
PaddedAround(axis, m, vs) ==
    /\ m = ClaimedMargin(vs)
    /\ m > 0
    /\ axis[1] = SeqMin(vs) * CoordScale - m
    /\ axis[2] = SeqMax(vs) * CoordScale + m
    /\ \A k \in 1..Len(vs) : axis[1] < vs[k] * CoordScale /\ vs[k] * CoordScale < axis[2]

\* C21: each scatter axis shows [min - m, max + m] with the same margin
\* m > 0 on both sides, m being 15% of (max - min) when max > min and 15%
\* of max(|min|, 1) when all plotted values are equal; every plotted point
\* lies strictly inside the axis range.
C21_SymmetricPadding ==
    (chart = "scatter" /\ fig # NoFig) =>
        /\ PaddedAround(fig.xaxis, fig.margin_x,
                        [k \in 1..Len(fig.traces) |-> fig.traces[k][1]])
        /\ PaddedAround(fig.yaxis, fig.margin_y,
                        [k \in 1..Len(fig.traces) |-> fig.traces[k][2]])

\* one plotted point: G-Value 0.34 (below 1, margin 0.15) against VLT 59
C21_Witness ==
    /\ chart = "scatter"
    /\ fig # NoFig
    /\ fig.traces = << << 34, 5900 >> >>
    /\ fig.margin_x = 15 * Unit
    /\ fig.margin_y = 15 * 5900

\* ------------------------------------------------------------ session seed
\* C22: the table is seeded with the two sample rows only when the session
\* has none; once a table exists every later script run starts from it, and
\* the table changes only to the content of the editor, so no run resets it
\* to the seed rows.
C22_SeededOnce ==
    [][ /\ has_df => has_df'
        /\ (~has_df /\ has_df') => run_log'.start = sample_data
        /\ (has_df /\ spc \in { "start", "rerun" } /\ spc' = "charts") =>
              run_log'.start = df
        /\ (has_df /\ df' # df) => df' = editor' ]_vars

\* a later run started from, and kept, an edited table
C22_Witness ==
    /\ spc = "idle"
    /\ has_df
    /\ n_edits >= 1
    /\ run_log.start # sample_data
    /\ df = run_log.start
    /\ df # sample_data

\* ---------------------------------------------------- placed rectangles
\* the label rectangles of rows i and j at their given positions intersect
PlacedIntersect(i, j) ==
    RectsIntersect(CandX(table_in, i, positions[i]), CandY(table_in, i, positions[i]),
                   CandX(table_in, j, positions[j]), CandY(table_in, j, positions[j]))

\* C23: a row placed without the fallback path has a label rectangle that
\* intersects the rectangle of no earlier row, fallback rows included; when
\* no row so far took the fallback path the rectangles placed so far are
\* pairwise disjoint.
C23_PlacedRectanglesDisjoint ==
    /\ \A i \in 1..row_i :
          ~fallback[i] => \A j \in 1..(i - 1) : ~PlacedIntersect(i, j)
    /\ (\A i \in 1..row_i : ~fallback[i]) =>
          \A i, j \in 1..row_i : i # j => ~PlacedIntersect(i, j)

\* a row placed by the loop after an earlier row took the fallback path
C23_Witness ==
    /\ row_i >= 3
    /\ \E j, i \in 1..row_i : j < i /\ fallback[j] /\ ~fallback[i]

\* ---------------------------------------------------- coincident points
\* the number of rows up to row i that have the coordinates of row i
RankAmongCoincident(tbl, i) == Cardinality({ j \in 1..i : tbl[j] = tbl[i] })

\* every row at other coordinates is far from row i: at least 0.39 away on
\* x or 0.26 away on y in normalized units, so that no candidate rectangle
\* of the one (centre within 0.12 x 0.08 of the point, extent 0.15 x 0.10)
\* reaches a candidate rectangle of the other
AloneOrCoincident(tbl, i) ==
    LET at(k) == normalize_coords(tbl[k].x, tbl[k].y, tbl, x_range, y_range)
    IN  \A j \in 1..Len(tbl) :
            tbl[j] # tbl[i] =>
                \/ Abs(at(i)[1] - at(j)[1]) >= Hx(39, x_range)
                \/ Abs(at(i)[2] - at(j)[2]) >= Hy(26, y_range)

FirstFour == << "top right", "top left", "bottom right", "bottom left" >>

\* C24: of the rows at one point (no row elsewhere being near) the first
\* four get top right, top left, bottom right and bottom left in that order,
\* and every further one finds all eight offsets overlapping, takes the
\* fallback path and gets top center.
C24_CoincidentPoints ==
    \A i \in 1..row_i :
        AloneOrCoincident(table_in, i) =>
            IF RankAmongCoincident(table_in, i) <= 4
            THEN /\ positions[i] = FirstFour[RankAmongCoincident(table_in, i)]
                 /\ ~fallback[i]
            ELSE /\ AllOverlap(i)
                 /\ fallback[i]
                 /\ positions[i] = "top center"

\* five rows at one point, all placed
C24_Witness ==
    /\ row_i = 5
    /\ \A i \in 1..5 : table_in[i] = table_in[1]
    /\ positions = << "top right", "top left", "bottom right", "bottom left", "top center" >>

\* ------------------------------------------------ ranges passed by the chart
\* C25: called by create_scatter_plot, the function gets x and y ranges
\* > 0, so every normalized coordinate lies in [0, 1]; on an axis where all
\* rows share the value every row normalizes to 0, and the 0.5 branch of
\* normalize_coords is not taken.
C25_ScatterRangesPositive ==
    caller = "scatter" =>
        /\ x_range > 0 /\ y_range > 0
        /\ row_i >= 1 =>
              /\ 0 <= norm[1] /\ norm[1] <= Hx(100, x_range)
              /\ 0 <= norm[2] /\ norm[2] <= Hy(100, y_range)
              /\ ZeroRangeX(table_in) => (norm[1] = 0 /\ norm[1] # Hx(50, x_range))
              /\ ZeroRangeY(table_in) => (norm[2] = 0 /\ norm[2] # Hy(50, y_range))

\* the scatter chart called the function on rows that share x and differ in y
C25_Witness ==
    /\ caller = "scatter"
    /\ row_i >= 2
    /\ ZeroRangeX(table_in)
    /\ ~ZeroRangeY(table_in)
    /\ norm[1] = 0
    /\ norm[2] = Hy(100, y_range)

\* ------------------------------------------------ labels of the main.py tab
ClaimedList ==
    << "top center", "bottom center", "middle left", "middle right",
       "top left", "top right", "bottom left", "bottom right" >>

\* the 0-based place of table row i among the rows that have every needed
\* metric
PlottedIndex(t, i, ms) ==
    Cardinality({ j \in 1..(i - 1) : ~LacksOneOf(t, j, ms) })

\* C26: in the scatter tab of main.py the label of the i-th plotted row
\* (counted from 0 after the rows with a missing x or y are dropped) is at
\* entry i mod 8 of the fixed list top center, bottom center, middle left,
\* middle right, top left, top right, bottom left, bottom right, whatever the
\* coordinates of the rows.
C26_FixedLabelCycle ==
    (host = "main" /\ chart = "scatter" /\ fig # NoFig /\ chart_in.show_labels) =>
        /\ Len(fig.textposition) = Len(fig.traces)
        /\ \A i \in 1..Len(chart_df) :
              ~LacksOneOf(chart_df, i, NeededMetrics) =>
                  LET idx == PlottedIndex(chart_df, i, NeededMetrics)
                  IN  /\ fig.rows[idx + 1] = i
                      /\ fig.textposition[idx + 1] = ClaimedList[(idx % 8) + 1]

\* nine rows plotted, a row before them dropped: the ninth label is back at
\* top center, and two rows with equal coordinates have different positions
C26_Witness ==
    /\ host = "main"
    /\ chart = "scatter"
    /\ fig # NoFig
    /\ chart_in.show_labels
    /\ Len(fig.traces) = 9
    /\ Len(chart_df) > 9
    /\ fig.textposition[9] = "top center"
    /\ fig.traces[1] = fig.traces[2]
    /\ fig.textposition[1] # fig.textposition[2]

\* ------------------------------------------------------------ bar order
\* C27: with a metric as sort key the bars come in non-increasing order of
\* the raw value of that metric and every trace follows that row order;
\* with the sort key 'Supplier' the plotted rows keep the order of the table.
C27_BarOrder ==
    (chart = "bar" /\ fig.kind = "bar") =>
        /\ Range(fig.rows) = { i \in 1..Len(chart_df) :
                                 ~LacksOneOf(chart_df, i, Range(chart_in.metrics_to_compare)) }
        /\ \A a, b \in 1..Len(fig.rows) : a # b => fig.rows[a] # fig.rows[b]
        /\ chart_in.sort_by # "Supplier" =>
              \A k \in 1..(Len(fig.rows) - 1) :
                  Cell(chart_df[fig.rows[k]], chart_in.sort_by)
                      >= Cell(chart_df[fig.rows[k + 1]], chart_in.sort_by)
        /\ chart_in.sort_by = "Supplier" =>
              \A k \in 1..(Len(fig.rows) - 1) : fig.rows[k] < fig.rows[k + 1]
        /\ \A m \in 1..Len(fig.traces) : \A k \in 1..Len(fig.rows) :
              LET metric == fig.traces[m].name
                  mx == MaxOver(chart_df, Range(fig.rows), metric)
              IN  mx > 0 =>
                      fig.traces[m].y[k].num * mx
                          = Cell(chart_df[fig.rows[k]], metric) * fig.traces[m].y[k].den

\* two metrics plotted, sorted by one of them, the rows reordered
C27_Witness ==
    /\ chart = "bar"
    /\ fig.kind = "bar"
    /\ Len(fig.traces) = 2
    /\ chart_in.sort_by = "G"
    /\ Len(fig.rows) = 3
    /\ fig.rows[1] > fig.rows[2]
    /\ Cell(chart_df[fig.rows[1]], "G") > Cell(chart_df[fig.rows[3]], "G")

====
